---- MODULE Spec2Model ----
(***************************************************************************)
(* Verse selection and publish pipeline of the Krishna108 platform.        *)
(*                                                                         *)
(* Time is counted in whole hours.  A verse-reference text such as "2.13"  *)
(* is the sequence of its dot-separated integers, <<2, 13>>.  The posts    *)
(* table is a sequence in insertion order; created_at is set by the store  *)
(* at insertion, so the last row is the newest one.                        *)
(***************************************************************************)
EXTENDS Integers, Sequences, FiniteSets, TLC

VARIABLES posts, now, pc, lastVerse, nextVerse, attempts, lastReads,
          allReads, selErr, thrown, response, runs, startNow, startLen,
          probe, request, stages, generatedContent,
          env, rateLimitStore, half, admitted,
          ringStart, ringCur, ringSteps,
          generation, validation, slugging, uniqueness

vars == <<posts, now, pc, lastVerse, nextVerse, attempts, lastReads,
          allReads, selErr, thrown, response, runs, startNow, startLen,
          probe, request, stages, generatedContent,
          env, rateLimitStore, half, admitted,
          ringStart, ringCur, ringSteps,
          generation, validation, slugging, uniqueness>>

pipeVars == <<posts, now, pc, lastVerse, nextVerse, attempts, lastReads,
              allReads, selErr, thrown, response, runs, startNow, startLen,
              probe, request, stages, generatedContent, env, rateLimitStore,
              half, admitted>>

gateVars == <<env, rateLimitStore, half, admitted>>

ringVars == <<ringStart, ringCur, ringSteps>>

unitVars == <<generation, validation, slugging, uniqueness>>

----------------------------------------------------------------------------
(* Scripture metadata                                                      *)

BG == "Bhagavad Gita"

SB == "Srimad Bhagavatam"

Sources == {BG, SB}

BHAGAVAD_GITA_STRUCTURE ==
    <<46, 72, 43, 42, 29, 47, 30, 28, 34, 42, 55, 20, 35, 27, 20, 24, 28, 78>>

SRIMAD_BHAGAVATAM_STRUCTURE ==
    << <<23, 34, 44, 33, 40, 38, 58, 52, 49, 70, 39, 36, 60, 43, 51, 36, 46,
         50, 43>> >>

VerseReference(s, c, v) == [source |-> s, chapter |-> c, verse |-> v]

\* A comparison against a missing table entry (undefined) is false.
VerseBelow(table, chapter, verse) ==
    IF chapter \in DOMAIN table THEN verse < table[chapter] ELSE FALSE

\* Variants of the sequencer: the verse test off by one; no wrap to the
\* other scripture at the end of the Bhagavad Gita.
getNextSequentialVerseOffByOne(current) ==
    IF current.source = BG
    THEN IF current.chapter \in DOMAIN BHAGAVAD_GITA_STRUCTURE
            /\ current.verse <= BHAGAVAD_GITA_STRUCTURE[current.chapter]
         THEN VerseReference(BG, current.chapter, current.verse + 1)
         ELSE IF current.chapter < 18
              THEN VerseReference(BG, current.chapter + 1, 1)
              ELSE VerseReference(SB, 1, 1)
    ELSE IF VerseBelow(SRIMAD_BHAGAVATAM_STRUCTURE[1], current.chapter,
                       current.verse)
         THEN VerseReference(SB, current.chapter, current.verse + 1)
         ELSE IF current.chapter < 19
              THEN VerseReference(SB, current.chapter + 1, 1)
              ELSE VerseReference(BG, 1, 1)

getNextSequentialVerseNoWrap(current) ==
    IF current.source = BG
    THEN IF VerseBelow(BHAGAVAD_GITA_STRUCTURE, current.chapter, current.verse)
         THEN VerseReference(BG, current.chapter, current.verse + 1)
         ELSE IF current.chapter < 18
              THEN VerseReference(BG, current.chapter + 1, 1)
              ELSE VerseReference(BG, 1, 1)
    ELSE IF VerseBelow(SRIMAD_BHAGAVATAM_STRUCTURE[1], current.chapter,
                       current.verse)
         THEN VerseReference(SB, current.chapter, current.verse + 1)
         ELSE IF current.chapter < 19
              THEN VerseReference(SB, current.chapter + 1, 1)
              ELSE VerseReference(BG, 1, 1)

\* Variant: a chapter with no table entry is answered with an error value.
OutOfRangeError == VerseReference("OutOfRangeError", 0, 0)

getNextSequentialVerseGuarded(current) ==
    IF current.source = BG
    THEN IF current.chapter \notin DOMAIN BHAGAVAD_GITA_STRUCTURE
         THEN OutOfRangeError
         ELSE IF current.verse < BHAGAVAD_GITA_STRUCTURE[current.chapter]
              THEN VerseReference(BG, current.chapter, current.verse + 1)
              ELSE IF current.chapter < 18
                   THEN VerseReference(BG, current.chapter + 1, 1)
                   ELSE VerseReference(SB, 1, 1)
    ELSE IF current.chapter \notin DOMAIN SRIMAD_BHAGAVATAM_STRUCTURE[1]
         THEN OutOfRangeError
         ELSE IF current.verse < SRIMAD_BHAGAVATAM_STRUCTURE[1][current.chapter]
              THEN VerseReference(SB, current.chapter, current.verse + 1)
              ELSE IF current.chapter < 19
                   THEN VerseReference(SB, current.chapter + 1, 1)
                   ELSE VerseReference(BG, 1, 1)

\* Variant: a new chapter starts at verse 0.
getNextSequentialVerseZeroBased(current) ==
    IF current.source = BG
    THEN IF VerseBelow(BHAGAVAD_GITA_STRUCTURE, current.chapter, current.verse)
         THEN VerseReference(BG, current.chapter, current.verse + 1)
         ELSE IF current.chapter < 18
              THEN VerseReference(BG, current.chapter + 1, 0)
              ELSE VerseReference(SB, 1, 1)
    ELSE IF VerseBelow(SRIMAD_BHAGAVATAM_STRUCTURE[1], current.chapter,
                       current.verse)
         THEN VerseReference(SB, current.chapter, current.verse + 1)
         ELSE IF current.chapter < 19
              THEN VerseReference(SB, current.chapter + 1, 0)
              ELSE VerseReference(BG, 1, 1)

getNextSequentialVerse(current) ==
    IF current.source = BG
    THEN IF VerseBelow(BHAGAVAD_GITA_STRUCTURE, current.chapter, current.verse)
         THEN VerseReference(BG, current.chapter, current.verse + 1)
         ELSE IF current.chapter < 18
              THEN VerseReference(BG, current.chapter + 1, 1)
              ELSE VerseReference(SB, 1, 1)
    ELSE IF VerseBelow(SRIMAD_BHAGAVATAM_STRUCTURE[1], current.chapter,
                       current.verse)
         THEN VerseReference(SB, current.chapter, current.verse + 1)
         ELSE IF current.chapter < 19
              THEN VerseReference(SB, current.chapter + 1, 1)
              ELSE VerseReference(BG, 1, 1)

\* The valid references: chapter defined for the source, verse within it.
StructureOf(s) ==
    IF s = BG THEN BHAGAVAD_GITA_STRUCTURE ELSE SRIMAD_BHAGAVATAM_STRUCTURE[1]

ValidRefs ==
    UNION { { VerseReference(s, c, v) : v \in 1..StructureOf(s)[c] } :
            <<s, c>> \in { <<BG, c>> : c \in DOMAIN BHAGAVAD_GITA_STRUCTURE }
                 \cup { <<SB, c>> : c \in DOMAIN SRIMAD_BHAGAVATAM_STRUCTURE[1] } }

RECURSIVE SumSeq(_)
SumSeq(s) == IF s = <<>> THEN 0 ELSE Head(s) + SumSeq(Tail(s))

TotalVerses ==
    SumSeq(BHAGAVAD_GITA_STRUCTURE) + SumSeq(SRIMAD_BHAGAVATAM_STRUCTURE[1])

----------------------------------------------------------------------------
(* History store (posts table) and the recency check                       *)

HoursPerDay == 24

WindowDays == 365

maxAttempts == 1000

Post(s, text, t) ==
    [scriptureSource |-> s, verseReference |-> text, createdAt |-> t]

\* `${verse.chapter}.${verse.verse}`
VerseString(verse) == <<verse.chapter, verse.verse>>

Null == VerseReference("null", 0, 0)

\* The newest row, its text split on dots: first number is the chapter,
\* last number the verse.  No row (PGRST116) and a failed fetch give null.
getLastPublishedVerse(rows, outcome) ==
    IF outcome = "fetch_failed" \/ rows = <<>>
    THEN Null
    ELSE LET data == rows[Len(rows)]
             parts == data.verseReference
         IN  VerseReference(data.scriptureSource, parts[1], parts[Len(parts)])

\* Variants of the recency check: the date test dropped; a strict cutoff.
hasVerseBeenPublishedEver(verse, days, allPosts, t) ==
    LET verseString == VerseString(verse)
    IN  \E i \in DOMAIN allPosts :
            /\ allPosts[i].verseReference = verseString
            /\ allPosts[i].scriptureSource = verse.source

hasVerseBeenPublishedAfterCutoff(verse, days, allPosts, t) ==
    LET cutoffDate == t - days * HoursPerDay
        verseString == VerseString(verse)
    IN  \E i \in DOMAIN allPosts :
            /\ allPosts[i].verseReference = verseString
            /\ allPosts[i].scriptureSource = verse.source
            /\ allPosts[i].createdAt > cutoffDate

\* Variant: the instant read drifts by an hour with every invocation.
hasVerseBeenPublishedDrifting(verse, days, allPosts, t) ==
    LET cutoffDate == (t + runs - 1) - days * HoursPerDay
        verseString == VerseString(verse)
    IN  \E i \in DOMAIN allPosts :
            /\ allPosts[i].verseReference = verseString
            /\ allPosts[i].scriptureSource = verse.source
            /\ allPosts[i].createdAt >= cutoffDate

hasVerseBeenPublishedRecently(verse, days, allPosts, t) ==
    LET cutoffDate == t - days * HoursPerDay
        verseString == VerseString(verse)
    IN  \E i \in DOMAIN allPosts :
            /\ allPosts[i].verseReference = verseString
            /\ allPosts[i].scriptureSource = verse.source
            /\ allPosts[i].createdAt >= cutoffDate

----------------------------------------------------------------------------
(* Canonical ring order, counted from the tables, and stored histories     *)

PrefixSum(table, c) == SumSeq(SubSeq(table, 1, c - 1))

\* Position of a valid reference in the ring, Bhagavad Gita 1.1 at 0.
RingIndex(ref) ==
    (IF ref.source = SB THEN SumSeq(BHAGAVAD_GITA_STRUCTURE) ELSE 0)
    + PrefixSum(StructureOf(ref.source), ref.chapter) + ref.verse - 1

RingOrder ==
    [i \in 0..(TotalVerses - 1) |-> CHOOSE r \in ValidRefs : RingIndex(r) = i]

RefAfter(ref, n) == RingOrder[(RingIndex(ref) + n) % TotalVerses]

WindowHours == WindowDays * HoursPerDay

MaxSkip == 3

SeedMiddle == 2

SeedAges ==
    {100 * HoursPerDay, WindowHours, WindowHours + 1, 400 * HoursPerDay}

SeedStarts ==
    { VerseReference(BG, 2, 13), VerseReference(BG, 1, 45),
      VerseReference(BG, 18, 77), VerseReference(SB, 1, 1),
      VerseReference(SB, 19, 42) }

\* The text of a reference as the pipeline writes it ("c.v") or with a
\* middle component ("c.m.v").
SeedText(ref, form) ==
    IF form = 3 THEN <<ref.chapter, SeedMiddle, ref.verse>>
    ELSE VerseString(ref)

RECURSIVE InsertByCreatedAt(_, _)
InsertByCreatedAt(row, rows) ==
    IF rows = <<>> THEN <<row>>
    ELSE IF row.createdAt <= Head(rows).createdAt THEN <<row>> \o rows
    ELSE <<Head(rows)>> \o InsertByCreatedAt(row, Tail(rows))

RECURSIVE SortByCreatedAt(_)
SortByCreatedAt(rows) ==
    IF rows = <<>> THEN <<>>
    ELSE InsertByCreatedAt(Head(rows), SortByCreatedAt(Tail(rows)))

\* The newest row is `last`; its k ring successors were stored earlier.
\* forms[0] is the text form of the newest row, forms[1] that of the others.
SkipSeed(last, k, ages, forms) ==
    SortByCreatedAt([i \in 1..k |->
        Post(RefAfter(last, i).source, SeedText(RefAfter(last, i), forms[1]),
             0 - ages[i])])
    \o <<Post(last.source, SeedText(last, forms[0]), 0)>>

\* The newest row is `last`; its n ring successors were stored an hour ago.
BlockSeed(last, n) ==
    [i \in 1..n |-> Post(RefAfter(last, i).source,
                         VerseString(RefAfter(last, i)), 0 - 1)]
    \o <<Post(last.source, VerseString(last), 0)>>

BlockLens == {maxAttempts - 1, maxAttempts, TotalVerses - 1}

SelSeeds ==
    {<<>>}
    \cup { <<Post(last.source, VerseString(last), 0 - age)>> :
             last \in ValidRefs, age \in {0, WindowHours + 1} }
    \cup UNION { { SkipSeed(last, k, ages, forms) :
                     last \in SeedStarts, ages \in [1..k -> SeedAges],
                     forms \in [0..1 -> {2, 3}] } : k \in 1..MaxSkip }
    \cup { BlockSeed(VerseReference(BG, 1, 1), n) : n \in BlockLens }

----------------------------------------------------------------------------
(* Request gate of the route: validateAuth and checkRateLimit              *)

\* A string is the sequence of its pieces; the scheme prefix is one piece.
Bearer == "Bearer "

SecretToken == <<"s3cret">>

InvalidToken == <<"invalid-token">>

\* A header, a query parameter or an environment variable: absent (null or
\* undefined), or given with a value; null, undefined and "" are falsy.
Absent == [present |-> FALSE, value |-> <<>>]

Given(v) == [present |-> TRUE, value |-> v]

Truthy(x) == x.present /\ x.value # <<>>

\* str.replace(piece, ''): the first occurrence only.
RECURSIVE ReplaceFirst(_, _)
ReplaceFirst(str, piece) ==
    IF str = <<>> THEN <<>>
    ELSE IF Head(str) = piece THEN Tail(str)
    ELSE <<Head(str)>> \o ReplaceFirst(Tail(str), piece)

NextRequest(authorization, token, forwardedFor) ==
    [authorization |-> authorization, token |-> token,
     forwardedFor |-> forwardedFor]

\* Variant: any Authorization header authenticates.
validateAuthAnyHeader(req, apiSecretToken) ==
    IF ~Truthy(apiSecretToken) THEN FALSE
    ELSE IF Truthy(req.authorization) THEN TRUE
    ELSE IF Truthy(req.token) THEN req.token.value = apiSecretToken.value
    ELSE FALSE

validateAuth(req, apiSecretToken) ==
    IF ~Truthy(apiSecretToken) THEN FALSE
    ELSE IF Truthy(req.authorization)
         THEN ReplaceFirst(req.authorization.value, Bearer)
                  = apiSecretToken.value
    ELSE IF Truthy(req.token) THEN req.token.value = apiSecretToken.value
    ELSE FALSE

DefaultClient == <<"default">>

ForwardedClient == <<"203.0.113.7">>

Clients == {DefaultClient, ForwardedClient}

\* request.headers.get('x-forwarded-for') || 'default'
ClientId(req) ==
    IF Truthy(req.forwardedFor) THEN req.forwardedFor.value ELSE DefaultClient

\* The limiter reads the clock in ticks of half an hour.
TicksPerHour == 2

DateNow == now * TicksPerHour + half

RATE_LIMIT_MAX_REQUESTS == 5

RATE_LIMIT_WINDOW_MS == TicksPerHour

\* No entry for the identifier in the map.
NoEntry == [count |-> 0, resetTime |-> 0]

\* Variant: the count test off by one.
checkRateLimitOffByOne(store, identifier, t) ==
    LET entry == store[identifier]
        cleaned == IF entry # NoEntry /\ t > entry.resetTime
                   THEN [store EXCEPT ![identifier] = NoEntry]
                   ELSE store
        currentEntry == cleaned[identifier]
    IN  IF currentEntry = NoEntry
        THEN [allowed |-> TRUE,
              store |-> [cleaned EXCEPT ![identifier] =
                           [count |-> 1,
                            resetTime |-> t + RATE_LIMIT_WINDOW_MS]]]
        ELSE IF currentEntry.count > RATE_LIMIT_MAX_REQUESTS
             THEN [allowed |-> FALSE, store |-> cleaned]
             ELSE [allowed |-> TRUE,
                   store |-> [cleaned EXCEPT ![identifier].count = @ + 1]]

\* The answer of checkRateLimit and the map it leaves behind.
checkRateLimit(store, identifier, t) ==
    LET entry == store[identifier]
        cleaned == IF entry # NoEntry /\ t > entry.resetTime
                   THEN [store EXCEPT ![identifier] = NoEntry]
                   ELSE store
        currentEntry == cleaned[identifier]
    IN  IF currentEntry = NoEntry
        THEN [allowed |-> TRUE,
              store |-> [cleaned EXCEPT ![identifier] =
                           [count |-> 1,
                            resetTime |-> t + RATE_LIMIT_WINDOW_MS]]]
        ELSE IF currentEntry.count >= RATE_LIMIT_MAX_REQUESTS
             THEN [allowed |-> FALSE, store |-> cleaned]
             ELSE [allowed |-> TRUE,
                   store |-> [cleaned EXCEPT ![identifier].count = @ + 1]]

NoRequest == NextRequest(Absent, Absent, Absent)

NoResponse == [status |-> 0, code |-> "none"]

----------------------------------------------------------------------------
(* Generated content and its validation                                    *)

\* A text is the sequence of its characters.
Space == " "

Repeat(c, n) == [i \in 1..n |-> c]

\* n one-letter words separated by single spaces.
Words(n) == [i \in 1..(2 * n - 1) |-> IF i % 2 = 1 THEN "a" ELSE Space]

\* !text || text.trim().length === 0
IsBlank(text) == \A i \in DOMAIN text : text[i] = Space

\* text.split(/\s+/).filter(word => word.length > 0).length
WordCount(text) ==
    Cardinality({ i \in DOMAIN text :
                    text[i] # Space /\ (i = 1 \/ text[i - 1] = Space) })

GeneratedContent(title, verseExcerpt, explanation, reflection, practicalApplication, closingLine, seoDescription, wordCount) ==
    [title |-> title, verseExcerpt |-> verseExcerpt,
     explanation |-> explanation, reflection |-> reflection,
     practicalApplication |-> practicalApplication,
     closingLine |-> closingLine, seoDescription |-> seoDescription,
     wordCount |-> wordCount]

\* The content generatePost builds from the parsed completion: the word
\* count is that of explanation, reflection and practical application
\* joined by spaces.
BuildContent(parsed) ==
    GeneratedContent(parsed.title, parsed.verseExcerpt, parsed.explanation,
                     parsed.reflection, parsed.practicalApplication,
                     parsed.closingLine, parsed.seoDescription,
                     WordCount(parsed.explanation \o <<Space>>
                               \o parsed.reflection \o <<Space>>
                               \o parsed.practicalApplication))

ValidationError(text, current) == [text |-> text, current |-> current]

ErrorIf(cond, text, current) ==
    IF cond THEN <<ValidationError(text, current)>> ELSE <<>>

\* Variant: the lower bound exclusive.
TotalOutOfRangeExclusive(wordCount) == wordCount <= 700 \/ wordCount > 900

\* content.wordCount < 700 || content.wordCount > 900
TotalOutOfRange(wordCount) == wordCount < 700 \/ wordCount > 900

validate(content) ==
    LET verseWordCount == WordCount(content.verseExcerpt)
        errors ==
            ErrorIf(IsBlank(content.title), "Title is required", 0)
         \o ErrorIf(IsBlank(content.verseExcerpt),
                    "Verse excerpt is required", 0)
         \o ErrorIf(IsBlank(content.explanation),
                    "Explanation is required", 0)
         \o ErrorIf(IsBlank(content.reflection), "Reflection is required", 0)
         \o ErrorIf(IsBlank(content.practicalApplication),
                    "Practical application is required", 0)
         \o ErrorIf(IsBlank(content.closingLine),
                    "Closing line is required", 0)
         \o ErrorIf(IsBlank(content.seoDescription),
                    "SEO description is required", 0)
         \o ErrorIf(content.title # <<>>
                      /\ (Len(content.title) < 1 \/ Len(content.title) > 100),
                    "Title must be between 1 and 100 characters", 0)
         \o ErrorIf(content.verseExcerpt # <<>>
                      /\ (verseWordCount < 1 \/ verseWordCount > 40),
                    "Verse excerpt must be between 1 and 40 words", 0)
         \o ErrorIf(content.seoDescription # <<>>
                      /\ (Len(content.seoDescription) < 1
                          \/ Len(content.seoDescription) > 160),
                    "SEO description must be between 1 and 160 characters", 0)
         \o ErrorIf(TotalOutOfRange(content.wordCount),
                    "Total word count must be between 700 and 900 words",
                    content.wordCount)
    IN  [valid |-> Len(errors) = 0, errors |-> errors]

NoContent == GeneratedContent(<<>>, <<>>, <<>>, <<>>, <<>>, <<>>, <<>>, 0)

NoGeneration ==
    [pc |-> "idle", verse |-> Null, attempt |-> 0, calls |-> 0,
     waitedMs |-> 0, errors |-> <<>>, result |-> NoContent, error |-> <<>>]

NoValidation ==
    [content |-> NoContent, called |-> FALSE,
     result |-> [valid |-> FALSE, errors |-> <<>>]]

NoSlugging == [title |-> <<>>, called |-> FALSE, slug |-> <<>>]

NoUniqueness ==
    [slug |-> <<>>, existingSlugs |-> <<>>, called |-> FALSE,
     counter |-> 0, uniqueSlug |-> <<>>]

GenIdle == generation = NoGeneration

ValIdle == validation = NoValidation

SlugIdle == slugging = NoSlugging

UniqIdle == uniqueness = NoUniqueness

UnitIdle == GenIdle /\ ValIdle /\ SlugIdle /\ UniqIdle

----------------------------------------------------------------------------
(* Ring walk: the sequencer applied repeatedly from every valid reference  *)

Procs == {1, 2}

NoProbe == [verse |-> Null, days |-> 0, result |-> FALSE, called |-> FALSE]

ProcIdle ==
    /\ now = 0
    /\ pc = [p \in Procs |-> "idle"]
    /\ lastVerse = [p \in Procs |-> Null]
    /\ nextVerse = [p \in Procs |-> Null]
    /\ attempts = [p \in Procs |-> 0]
    /\ lastReads = [p \in Procs |-> 0]
    /\ allReads = [p \in Procs |-> 0]
    /\ selErr = [p \in Procs |-> "none"]
    /\ thrown = [p \in Procs |-> "none"]
    /\ response = [p \in Procs |-> NoResponse]
    /\ request = [p \in Procs |-> NoRequest]
    /\ stages = [p \in Procs |-> <<>>]
    /\ generatedContent = [p \in Procs |-> NoContent]
    /\ rateLimitStore = [c \in Clients |-> NoEntry]
    /\ half = 0
    /\ admitted = [c \in Clients |-> <<>>]
    /\ runs = 0
    /\ startNow = [p \in Procs |-> 0]
    /\ startLen = [p \in Procs |-> 0]
    /\ probe = NoProbe

PipeIdle == posts = <<>> /\ env = Given(SecretToken) /\ ProcIdle

RingIdle ==
    /\ ringStart = Null
    /\ ringCur = Null
    /\ ringSteps = 0

InitRing ==
    /\ UnitIdle
    /\ PipeIdle
    /\ ringStart \in ValidRefs
    /\ ringCur = ringStart
    /\ ringSteps = 0

RingStep ==
    /\ ringSteps < TotalVerses
    /\ ringCur' = getNextSequentialVerse(ringCur)
    /\ ringSteps' = ringSteps + 1
    /\ UNCHANGED <<ringStart, pipeVars, unitVars>>

NextRing == RingStep

SpecRing == InitRing /\ [][NextRing]_vars

\* The sequencer applied to references as getLastPublishedVerse may parse
\* them from a stored text: chapters the tables do not define.
SeqChapters == {0 - 1, 0, 19, 20, 21}

SeqVerses == {1, 5}

OutOfRangeStarts ==
    { r \in { VerseReference(s, c, v) :
                s \in Sources, c \in SeqChapters, v \in SeqVerses } :
        r.chapter \notin DOMAIN StructureOf(r.source) }

InitSeq ==
    /\ UnitIdle
    /\ PipeIdle
    /\ ringStart \in OutOfRangeStarts
    /\ ringCur = ringStart
    /\ ringSteps = 0

SpecSeq == InitSeq /\ [][NextRing]_vars

\* C1: from every valid reference, TotalVerses applications of the
\* sequencer return to the start, the start is not met again before that,
\* and the walk never leaves the valid references: step n stands n places
\* after the start in the ring, so no reference is met twice and none is
\* left out (one cycle over them all).
RingTotality ==
    /\ ringCur \in ValidRefs
    /\ (ringSteps = TotalVerses => ringCur = ringStart)
    /\ (0 < ringSteps /\ ringSteps < TotalVerses => ringCur # ringStart)
    /\ RingIndex(ringCur) = (RingIndex(ringStart) + ringSteps) % TotalVerses

RingClosed == ringSteps = TotalVerses /\ ringCur = ringStart

----------------------------------------------------------------------------
(* Publish pipeline: POST /api/generate-post, one invocation per process   *)

MaxRuns == 2

MaxNow == 1

BG11 == VerseReference(BG, 1, 1)

InFlight(p) == pc[p] \notin {"idle", "done"}

Respond(p, status, code) ==
    /\ pc' = [pc EXCEPT ![p] = "done"]
    /\ response' = [response EXCEPT ![p] = [status |-> status, code |-> code]]

\* A process takes up a new invocation: what the previous one left is gone.
Enter(p, limit) ==
    /\ pc[p] \in {"idle", "done"}
    /\ runs < limit
    /\ runs' = runs + 1
    /\ lastVerse' = [lastVerse EXCEPT ![p] = Null]
    /\ nextVerse' = [nextVerse EXCEPT ![p] = Null]
    /\ attempts' = [attempts EXCEPT ![p] = 0]
    /\ lastReads' = [lastReads EXCEPT ![p] = 0]
    /\ allReads' = [allReads EXCEPT ![p] = 0]
    /\ selErr' = [selErr EXCEPT ![p] = "none"]
    /\ thrown' = [thrown EXCEPT ![p] = "none"]
    /\ startNow' = [startNow EXCEPT ![p] = now]
    /\ startLen' = [startLen EXCEPT ![p] = Len(posts)]
    /\ generatedContent' = [generatedContent EXCEPT ![p] = NoContent]
    /\ UNCHANGED <<posts, now, half, env, probe, ringVars,
                   unitVars>>

\* The handler up to its first await: authentication, rate limit, and the
\* call of getNextVerse.
POST(p, req) ==
    /\ request' = [request EXCEPT ![p] = req]
    /\ IF ~validateAuth(req, env)
       THEN /\ Respond(p, 401, "AUTH_FAILED")
            /\ stages' = [stages EXCEPT ![p] = <<"auth">>]
            /\ UNCHANGED <<rateLimitStore, admitted>>
       ELSE LET clientId == ClientId(req)
                limit == checkRateLimit(rateLimitStore, clientId, DateNow)
            IN  /\ rateLimitStore' = limit.store
                /\ stages' = [stages EXCEPT ![p] = <<"auth", "rateLimit">>]
                /\ IF ~limit.allowed
                   THEN /\ Respond(p, 429, "RATE_LIMIT_EXCEEDED")
                        /\ UNCHANGED admitted
                   ELSE /\ pc' = [pc EXCEPT ![p] = "getLast"]
                        /\ response' = [response EXCEPT ![p] = NoResponse]
                        /\ admitted' = [admitted EXCEPT ![clientId] =
                                          Append(@, DateNow)]

AuthorizedRequest ==
    NextRequest(Given(<<Bearer>> \o SecretToken), Absent, Absent)

PipeRequests == {AuthorizedRequest, NoRequest}

RequestSingleFlight(p) ==
    /\ \A q \in Procs \ {p} : ~InFlight(q)
    /\ Enter(p, MaxRuns)
    /\ \E req \in PipeRequests : POST(p, req)

\* A request enters the handler: nothing in the route looks at other
\* invocations in flight.
Request(p) ==
    /\ Enter(p, MaxRuns)
    /\ \E req \in PipeRequests : POST(p, req)

\* getNextVerse called directly.
getNextVerse(p) ==
    /\ Enter(p, MaxRuns)
    /\ pc' = [pc EXCEPT ![p] = "getLast"]
    /\ response' = [response EXCEPT ![p] = NoResponse]
    /\ stages' = [stages EXCEPT ![p] = <<>>]
    /\ UNCHANGED <<request, rateLimitStore, admitted>>

\* if (!lastVerse) return 1.1 of the Bhagavad Gita, with no recency check;
\* otherwise the first candidate is the successor and the loop is entered.
FirstCandidateChecked(last) ==
    IF last = Null
    THEN [verse |-> BG11, pc |-> "check"]
    ELSE [verse |-> getNextSequentialVerse(last), pc |-> "check"]

FirstCandidate(last) ==
    IF last = Null
    THEN [verse |-> BG11, pc |-> "generate"]
    ELSE [verse |-> getNextSequentialVerse(last), pc |-> "check"]

\* What the history collaborator throws: the wrapped query error, or
\* whatever the client raised (missing configuration, a failed connection).
LastVerseErrors ==
    {"Failed to get last published verse", "Missing Supabase environment variables"}

AllPostsErrors ==
    {"Failed to get all posts", "fetch failed"}

StoreErrors == LastVerseErrors \cup AllPostsErrors

\* getNextVerse awaits both collaborators outside any try/catch: what they
\* throw is what it rejects with.
RethrowWrapped(p, e) ==
    selErr' = [selErr EXCEPT ![p] = "Verse selection failed"]

Rethrow(p, e) ==
    selErr' = [selErr EXCEPT ![p] = e]

\* Every call of hasVerseBeenPublishedRecently awaits getAllPosts() itself.
LoadAllPostsOnce(p) ==
    allReads' = [allReads EXCEPT ![p] = IF attempts[p] = 0 THEN @ + 1 ELSE @]

LoadAllPosts(p) ==
    allReads' = [allReads EXCEPT ![p] = @ + 1]

\* getNextVerse up to its first candidate: await getLastPublishedVerse(),
\* return 1.1 of the Bhagavad Gita when it is null, else take the successor.
GetLast(p) ==
    /\ pc[p] = "getLast"
    /\ lastReads' = [lastReads EXCEPT ![p] = @ + 1]
    /\ stages' = [stages EXCEPT ![p] = Append(@, "select")]
    /\ \E outcome \in {"ok", "fetch_failed", "error"} :
         IF outcome = "error"
         THEN /\ Respond(p, 500, "VERSE_SELECTION_FAILED")
              /\ \E e \in LastVerseErrors :
                     /\ thrown' = [thrown EXCEPT ![p] = e]
                     /\ Rethrow(p, e)
              /\ UNCHANGED <<lastVerse, nextVerse>>
         ELSE LET last == getLastPublishedVerse(posts, outcome)
              IN  /\ lastVerse' = [lastVerse EXCEPT ![p] = last]
                  /\ UNCHANGED <<selErr, thrown, response>>
                  /\ nextVerse' = [nextVerse EXCEPT ![p] =
                                     FirstCandidate(last).verse]
                  /\ pc' = [pc EXCEPT ![p] = FirstCandidate(last).pc]
    /\ UNCHANGED <<posts, now, attempts, allReads, runs, startNow, startLen,
                   probe, request, generatedContent, gateVars, ringVars,
                   unitVars>>

\* One turn of the while loop: await hasVerseBeenPublishedRecently(nextVerse,
\* 365), which loads all posts; on true step to the successor and count.
CheckRecent(p) ==
    /\ pc[p] = "check"
    /\ LoadAllPosts(p)
    /\ \E outcome \in {"ok", "error"} :
         IF outcome = "error"
         THEN /\ Respond(p, 500, "VERSE_SELECTION_FAILED")
              /\ \E e \in AllPostsErrors :
                     /\ thrown' = [thrown EXCEPT ![p] = e]
                     /\ Rethrow(p, e)
              /\ UNCHANGED <<nextVerse, attempts>>
         ELSE IF hasVerseBeenPublishedRecently(nextVerse[p], WindowDays,
                                               posts, now)
              THEN /\ nextVerse' = [nextVerse EXCEPT ![p] =
                                      getNextSequentialVerse(@)]
                   /\ attempts' = [attempts EXCEPT ![p] = @ + 1]
                   /\ IF attempts[p] + 1 >= maxAttempts
                      THEN /\ Respond(p, 500, "VERSE_SELECTION_FAILED")
                           /\ selErr' = [selErr EXCEPT ![p] = "exhausted"]
                      ELSE UNCHANGED <<pc, response, selErr>>
                   /\ UNCHANGED thrown
              ELSE /\ pc' = [pc EXCEPT ![p] = "generate"]
                   /\ UNCHANGED <<nextVerse, attempts, response, selErr,
                                  thrown>>
    /\ UNCHANGED <<posts, now, lastVerse, lastReads, runs, startNow, startLen,
                   probe, request, stages, generatedContent, gateVars,
                   ringVars,
                   unitVars>>

\* Completions the model returns to the pipeline: one that validates, one
\* a word short.
ParsedCompletion(words) ==
    [title |-> <<"a">>, verseExcerpt |-> <<"a">>,
     explanation |-> Words(words - 2), reflection |-> <<"a">>,
     practicalApplication |-> <<"a">>, closingLine |-> <<"a">>,
     seoDescription |-> <<"a">>]

PipeContents == { BuildContent(ParsedCompletion(n)) : n \in {699, 700} }

\* Variant: the validation result is not looked at.
ValidationIgnored(content) == TRUE

ValidationPassed(content) == validate(content).valid

\* await generatePost(verse), then validate(generatedContent).
GeneratePost(p) ==
    /\ pc[p] = "generate"
    /\ \E outcome \in {"content", "error"} :
         IF outcome = "error"
         THEN /\ Respond(p, 500, "CONTENT_GENERATION_FAILED")
              /\ stages' = [stages EXCEPT ![p] = Append(@, "generate")]
              /\ UNCHANGED generatedContent
         ELSE \E content \in PipeContents :
                /\ generatedContent' = [generatedContent EXCEPT ![p] = content]
                /\ stages' = [stages EXCEPT ![p] = @ \o <<"generate", "validate">>]
                /\ IF ~ValidationPassed(content)
                   THEN Respond(p, 500, "VALIDATION_ERROR")
                   ELSE /\ pc' = [pc EXCEPT ![p] = "slug"]
                        /\ UNCHANGED response
    /\ UNCHANGED <<posts, now, lastVerse, nextVerse, attempts, lastReads,
                   allReads, selErr, thrown, runs, startNow, startLen, probe,
                   request, gateVars, ringVars,
                   unitVars>>

\* await getAllPosts() for the existing slugs, then generateSlug and
\* ensureUnique.
BuildSlug(p) ==
    /\ pc[p] = "slug"
    /\ stages' = [stages EXCEPT ![p] = Append(@, "slug")]
    /\ \E outcome \in {"ok", "error"} :
         IF outcome = "error"
         THEN Respond(p, 500, "DATABASE_ERROR")
         ELSE /\ pc' = [pc EXCEPT ![p] = "save"]
              /\ UNCHANGED response
    /\ UNCHANGED <<posts, now, lastVerse, nextVerse, attempts, lastReads,
                   allReads, selErr, thrown, runs, startNow, startLen, probe,
                   request, generatedContent, gateVars, ringVars,
                   unitVars>>

\* await savePost({... scriptureSource: verse.source,
\* verseReference: `${verse.chapter}.${verse.verse}` ...}); created_at is
\* the store's clock at insertion.
SavePost(p) ==
    /\ pc[p] = "save"
    /\ stages' = [stages EXCEPT ![p] = Append(@, "save")]
    /\ \E outcome \in {"ok", "error"} :
         IF outcome = "error"
         THEN /\ Respond(p, 500, "DATABASE_ERROR")
              /\ UNCHANGED posts
         ELSE /\ posts' = Append(posts, Post(nextVerse[p].source,
                                             VerseString(nextVerse[p]), now))
              /\ Respond(p, 200, "none")
    /\ UNCHANGED <<now, lastVerse, nextVerse, attempts, lastReads, allReads,
                   selErr, thrown, runs, startNow, startLen, probe, request,
                   generatedContent, gateVars, ringVars,
                   unitVars>>

\* The clock advances by an hour.
Tick ==
    /\ now < MaxNow
    /\ now' = now + 1
    /\ UNCHANGED <<posts, pc, lastVerse, nextVerse, attempts, lastReads,
                   allReads, selErr, thrown, response, runs, startNow,
                   startLen, probe, request, stages, generatedContent,
                   env, rateLimitStore, half, admitted, ringVars,
                   unitVars>>

Step(p) ==
    \/ GetLast(p)
    \/ CheckRecent(p)
    \/ GeneratePost(p)
    \/ BuildSlug(p)
    \/ SavePost(p)

Next ==
    \/ \E p \in Procs : Request(p)
    \/ \E p \in Procs : Step(p)
    \/ Tick

\* The caller admits an invocation only when no other one is in flight.
NextSerial ==
    \/ \E p \in Procs : (\A q \in Procs \ {p} : ~InFlight(q)) /\ Request(p)
    \/ \E p \in Procs : Step(p)
    \/ Tick

MaxSeed == 1

\* Histories the pipeline itself leaves behind: the first k references of
\* the ring, stored in ring order.
PipeSeeds ==
    { [i \in 1..k |-> Post(RingOrder[i - 1].source,
                           VerseString(RingOrder[i - 1]), 0 - age)] :
        k \in 0..MaxSeed, age \in {0, WindowHours, WindowHours + 1} }

Init ==
    /\ UnitIdle
    /\ posts \in PipeSeeds
    /\ env \in {Absent, Given(SecretToken)}
    /\ ProcIdle
    /\ RingIdle

Spec == Init /\ [][Next]_vars

SpecSerial == Init /\ [][NextSerial]_vars

----------------------------------------------------------------------------
(* getNextVerse and hasVerseBeenPublishedRecently called on stored         *)
(* histories                                                               *)

SelProc == 1

ProbeDays == {100, WindowDays, 400}

\* A direct call hasVerseBeenPublishedRecently(verse, days).
HasVerseCall ==
    /\ pc[SelProc] = "idle"
    /\ ~probe.called
    /\ posts # <<>>
    /\ \E n \in 0..(MaxSkip + 1), days \in ProbeDays :
         LET verse == RefAfter(getLastPublishedVerse(posts, "ok"), n)
         IN  probe' = [verse |-> verse, days |-> days, called |-> TRUE,
                       result |-> hasVerseBeenPublishedRecently(
                                      verse, days, posts, now)]
    /\ UNCHANGED <<posts, now, pc, lastVerse, nextVerse, attempts, lastReads,
                   allReads, selErr, thrown, response, runs, startNow,
                   startLen, request, stages, generatedContent, gateVars,
                   ringVars,
                   unitVars>>

InitSel ==
    /\ UnitIdle
    /\ posts \in SelSeeds
    /\ env = Given(SecretToken)
    /\ ProcIdle
    /\ RingIdle

TwinProc == 2

\* getNextVerse has returned a reference to p or raised exhaustion.
Settled(p) ==
    /\ pc[p] \notin {"idle", "getLast", "check"}
    /\ selErr[p] \in {"none", "exhausted"}

\* getNextVerse is called once, and a second time once the first call has
\* settled; nothing is stored in between and the clock stands still.
NextSel ==
    \/ runs = 0 /\ ~probe.called /\ getNextVerse(SelProc)
    \/ GetLast(SelProc)
    \/ CheckRecent(SelProc)
    \/ HasVerseCall
    \/ Settled(SelProc) /\ getNextVerse(TwinProc)
    \/ GetLast(TwinProc)
    \/ CheckRecent(TwinProc)

SpecSel == InitSel /\ [][NextSel]_vars

----------------------------------------------------------------------------
(* The request gate alone: requests of every shape, half-hour clock        *)

GateProc == 1

MaxArrivals == 7

\* Requests as the route's tests build them, and the shapes validateAuth
\* tells apart: header alone, query alone, both, an empty header, a header
\* without or with a doubled scheme.
GateRequests ==
    { NoRequest,
      AuthorizedRequest,
      NextRequest(Given(<<Bearer>> \o SecretToken), Absent,
                  Given(ForwardedClient)),
      NextRequest(Given(SecretToken), Absent, Absent),
      NextRequest(Given(<<Bearer>> \o InvalidToken), Absent, Absent),
      NextRequest(Given(<<Bearer>> \o InvalidToken), Given(SecretToken),
                  Absent),
      NextRequest(Given(<<Bearer, Bearer>> \o SecretToken), Absent, Absent),
      NextRequest(Given(<<>>), Given(SecretToken), Absent),
      NextRequest(Absent, Given(SecretToken), Absent),
      NextRequest(Absent, Given(InvalidToken), Given(ForwardedClient)) }

Arrive(p) ==
    /\ Enter(p, MaxArrivals)
    /\ \E req \in GateRequests : POST(p, req)

\* The clock advances by half an hour.
TickHalf ==
    /\ half + 1 < TicksPerHour \/ now < MaxNow
    /\ IF half + 1 < TicksPerHour
       THEN half' = half + 1 /\ now' = now
       ELSE half' = 0 /\ now' = now + 1
    /\ UNCHANGED <<posts, pc, lastVerse, nextVerse, attempts, lastReads,
                   allReads, selErr, thrown, response, runs, startNow,
                   startLen, probe, request, stages, generatedContent,
                   env, rateLimitStore, admitted, ringVars,
                   unitVars>>

InitGate ==
    /\ UnitIdle
    /\ posts = <<>>
    /\ env \in {Absent, Given(SecretToken)}
    /\ ProcIdle
    /\ RingIdle

NextGate ==
    \/ Arrive(GateProc)
    \/ GetLast(GateProc)
    \/ TickHalf

SpecGate == InitGate /\ [][NextGate]_vars

----------------------------------------------------------------------------
(* generatePost alone: the retry loop around the completion call           *)

RETRY_DELAY_MS == 2000

\* What one completion call may bring: a rejection with its message, or a
\* response whose content is missing, is no JSON, is the JSON null, or is a
\* JSON object.
Rejection(message) ==
    [rejected |-> TRUE, message |-> message, text |-> "none",
     parsed |-> ParsedCompletion(700)]

Response(text, parsed) ==
    [rejected |-> FALSE, message |-> "none", text |-> text, parsed |-> parsed]

EmptyObject ==
    [title |-> <<>>, verseExcerpt |-> <<>>, explanation |-> <<>>,
     reflection |-> <<>>, practicalApplication |-> <<>>,
     closingLine |-> <<>>, seoDescription |-> <<>>]

Completions ==
    { Rejection("API timeout"), Rejection("Rate limit exceeded"),
      Response("missing", EmptyObject), Response("not json", EmptyObject),
      Response("null", EmptyObject), Response("object", EmptyObject),
      Response("object", ParsedCompletion(699)),
      Response("object", ParsedCompletion(700)) }

\* The body of the try block for one completion: the content built, or the
\* message of what was thrown.
AttemptOutcome(completion) ==
    IF completion.rejected
    THEN [ok |-> FALSE, message |-> completion.message, content |-> NoContent]
    ELSE IF completion.text = "missing"
    THEN [ok |-> FALSE, message |-> "OpenAI returned empty response",
          content |-> NoContent]
    ELSE IF completion.text = "not json"
    THEN [ok |-> FALSE, message |-> "Unexpected token", content |-> NoContent]
    ELSE IF completion.text = "null"
    THEN [ok |-> FALSE, message |-> "Cannot read properties of null",
          content |-> NoContent]
    ELSE [ok |-> TRUE, message |-> "none",
          content |-> BuildContent(completion.parsed)]

\* Variant: one more attempt.
IsLastAttemptOfThree(attempt) == attempt = 3

\* for (attempt = 1; attempt <= 2; ...) ... if (attempt === 2) break
IsLastAttempt(attempt) == attempt = 2

\* generatePost(verse) up to its first await: the first completion call.
GenCall ==
    /\ generation.pc = "idle"
    /\ generation' = [generation EXCEPT !.pc = "completion", !.attempt = 1,
                                        !.calls = 1]
    /\ UNCHANGED <<pipeVars, ringVars, validation, slugging, uniqueness>>

\* The completion call settles: return the content, or note the error and
\* either sleep before the retry or give up.
GenSettle ==
    /\ generation.pc = "completion"
    /\ \E completion \in Completions :
         LET out == AttemptOutcome(completion)
         IN  IF out.ok
             THEN generation' = [generation EXCEPT !.pc = "returned",
                                                   !.result = out.content]
             ELSE IF IsLastAttempt(generation.attempt)
             THEN generation' =
                    [generation EXCEPT
                       !.pc = "rejected",
                       !.errors = Append(@, out.message),
                       !.error = <<"Content generation failed after 2 attempts: ",
                                   out.message>>]
             ELSE generation' = [generation EXCEPT
                                   !.pc = "sleep",
                                   !.errors = Append(@, out.message)]
    /\ UNCHANGED <<pipeVars, ringVars, validation, slugging, uniqueness>>

\* The timer fires: the next attempt's completion call.
GenWake ==
    /\ generation.pc = "sleep"
    /\ generation' = [generation EXCEPT !.pc = "completion",
                                        !.waitedMs = @ + RETRY_DELAY_MS,
                                        !.attempt = @ + 1,
                                        !.calls = @ + 1]
    /\ UNCHANGED <<pipeVars, ringVars, validation, slugging, uniqueness>>

InitGen ==
    /\ PipeIdle
    /\ RingIdle
    /\ ValIdle
    /\ SlugIdle
    /\ UniqIdle
    /\ \E verse \in SeedStarts :
           generation = [NoGeneration EXCEPT !.verse = verse]

NextGen == GenCall \/ GenSettle \/ GenWake

SpecGen == InitGen /\ [][NextGen]_vars

----------------------------------------------------------------------------
(* validate alone, on contents around every limit                          *)

ValTitles ==
    { <<>>, <<Space>>, <<"a">>, Repeat("a", 100), Repeat("a", 101) }

ValExcerpts ==
    { <<>>, <<Space>>, Words(1), Words(40), Words(41),
      <<Space>> \o Words(40) \o <<Space>> }

ValSeoDescriptions ==
    { <<>>, <<Space>>, <<"a">>, Repeat("a", 160), Repeat("a", 161) }

ValExplanations == { <<>>, <<Space>>, <<"a">> }

ValTexts == { <<>>, <<"a">> }

ValWordCounts == {699, 700, 900, 901}

ValContents ==
    { GeneratedContent(t, v, e, r, a, c, d, n) :
        t \in ValTitles, v \in ValExcerpts, e \in ValExplanations,
        r \in ValTexts, a \in ValTexts, c \in ValTexts,
        d \in ValSeoDescriptions, n \in ValWordCounts }

Validate ==
    /\ ~validation.called
    /\ validation' = [validation EXCEPT !.called = TRUE,
                                        !.result = validate(validation.content)]
    /\ UNCHANGED <<pipeVars, ringVars, generation, slugging, uniqueness>>

InitVal ==
    /\ PipeIdle
    /\ RingIdle
    /\ GenIdle
    /\ SlugIdle
    /\ UniqIdle
    /\ \E content \in ValContents :
           validation = [NoValidation EXCEPT !.content = content]

NextVal == Validate

SpecVal == InitVal /\ [][NextVal]_vars

----------------------------------------------------------------------------
(* generateSlug alone; a title is a sequence of one-character strings     *)

Hyphen == "-"

Whitespace == {Space, "\t"}

\* [a-z0-9-]
SlugChars ==
    { "a", "b", "c", "d", "e", "f", "g", "h", "i", "j", "k", "l", "m",
      "n", "o", "p", "q", "r", "s", "t", "u", "v", "w", "x", "y", "z",
      "0", "1", "2", "3", "4", "5", "6", "7", "8", "9", Hyphen }

\* .toLowerCase(), on the letters the titles below are made of
ToLowerCase(text) ==
    [i \in DOMAIN text |->
        CASE text[i] = "A" -> "a"
          [] text[i] = "B" -> "b"
          [] OTHER -> text[i]]

\* A position that a replacement leaves empty.
Dropped == ""

Compact(text) == SelectSeq(text, LAMBDA c : c # Dropped)

\* .replace(/\s+/g, '-'): the first character of a run becomes the hyphen
ReplaceWhitespace(text) ==
    Compact([i \in DOMAIN text |->
                IF text[i] \notin Whitespace THEN text[i]
                ELSE IF i > 1 /\ text[i - 1] \in Whitespace THEN Dropped
                ELSE Hyphen])

\* .replace(/[^a-z0-9-]/g, '')
RemoveSpecial(text) == SelectSeq(text, LAMBDA c : c \in SlugChars)

\* Variant: runs of hyphens are left as they are.
CollapseHyphensKept(text) == text

\* .replace(/-+/g, '-')
CollapseHyphens(text) ==
    Compact([i \in DOMAIN text |->
                IF text[i] = Hyphen /\ i > 1 /\ text[i - 1] = Hyphen
                THEN Dropped
                ELSE text[i]])

\* .replace(/^-+|-+$/g, '')
TrimHyphens(text) ==
    LET kept == {i \in DOMAIN text : text[i] # Hyphen}
    IN  IF kept = {} THEN <<>>
        ELSE SubSeq(text,
                    CHOOSE i \in kept : \A j \in kept : i <= j,
                    CHOOSE i \in kept : \A j \in kept : i >= j)

\* .slice(0, 100)
Slice(text, end) == SubSeq(text, 1, IF Len(text) < end THEN Len(text) ELSE end)

generateSlug(title) ==
    Slice(TrimHyphens(CollapseHyphens(RemoveSpecial(
              ReplaceWhitespace(ToLowerCase(title))))), 100)

MaxTitleLen == 4

TitleChars == {"a", "A", Space, Hyphen, "!"}

ShortTitles ==
    UNION { [1..n -> TitleChars] : n \in 0..MaxTitleLen }

\* Titles that reach the 100-character limit: a long word, then a short end.
LongTitles ==
    { Repeat("a", n) \o tail :
        n \in {98, 99, 100},
        tail \in UNION { [1..k -> TitleChars] : k \in 0..2 } }

Titles == ShortTitles \cup LongTitles

Slugify ==
    /\ ~slugging.called
    /\ slugging' = [slugging EXCEPT !.called = TRUE,
                                    !.slug = generateSlug(slugging.title)]
    /\ UNCHANGED <<pipeVars, ringVars, generation, validation, uniqueness>>

InitSlug ==
    /\ PipeIdle
    /\ RingIdle
    /\ GenIdle
    /\ ValIdle
    /\ UniqIdle
    /\ \E title \in Titles : slugging = [NoSlugging EXCEPT !.title = title]

\* generateSlug applied to its own result.
Reslugify ==
    /\ slugging.called
    /\ slugging' = [title |-> slugging.slug, called |-> TRUE,
                    slug |-> generateSlug(slugging.slug)]
    /\ UNCHANGED <<pipeVars, ringVars, generation, validation, uniqueness>>

NextSlug == Slugify \/ Reslugify

SpecSlug == InitSlug /\ [][NextSlug]_vars

----------------------------------------------------------------------------
(* ensureUnique alone, on slugs around the 100-character limit             *)

DigitChars == <<"0", "1", "2", "3", "4", "5", "6", "7", "8", "9">>

\* The decimal text of a counter, as the template literal writes it.
RECURSIVE CounterText(_)
CounterText(n) ==
    IF n < 10 THEN <<DigitChars[n + 1]>>
    ELSE CounterText(n \div 10) \o <<DigitChars[(n % 10) + 1]>>

\* `-${counter}`
Suffix(counter) == <<Hyphen>> \o CounterText(counter)

\* existingSlugs.includes(x)
Includes(existingSlugs, x) ==
    \E i \in DOMAIN existingSlugs : existingSlugs[i] = x

\* Variant: the counter past every existing entry, gaps not looked at.
NextCounterPastAll(slug, existingSlugs, counter) == Len(existingSlugs) + 1

\* while (existingSlugs.includes(uniqueSlug)) counter++
RECURSIVE NextCounter(_, _, _)
NextCounter(slug, existingSlugs, counter) ==
    IF Includes(existingSlugs, slug \o Suffix(counter))
    THEN NextCounter(slug, existingSlugs, counter + 1)
    ELSE counter

\* Variant: no room is made for the suffix.
MaxBaseLengthWhole(suffix) == 100

\* const maxBaseLength = 100 - suffix.length
MaxBaseLength(suffix) == 100 - Len(suffix)

ensureUnique(slug, existingSlugs) ==
    IF ~Includes(existingSlugs, slug) THEN slug
    ELSE LET counter == NextCounter(slug, existingSlugs, 2)
             uniqueSlug == slug \o Suffix(counter)
         IN  IF Len(uniqueSlug) > 100
             THEN Slice(slug, MaxBaseLength(Suffix(counter)))
                      \o Suffix(counter)
             ELSE uniqueSlug

MaxSuffix == 3

UniqueBases ==
    { <<"a">>, <<"a", Hyphen, "b">>, Repeat("a", 97), Repeat("a", 98),
      Repeat("a", 99), Repeat("a", 100) }

\* The numbers of ks in increasing order.
Ascending(ks) == SelectSeq([i \in 1..(MaxSuffix + 8) |-> i], LAMBDA k : k \in ks)

\* slug-k for the numbers of ks.
Numbered(slug, ks) ==
    [i \in DOMAIN Ascending(ks) |-> slug \o Suffix(Ascending(ks)[i])]

\* The names a numbered slug has once it is cut to 100 characters.
CutNumbered(slug, ks) ==
    [i \in DOMAIN Ascending(ks) |->
        Slice(slug, 100 - Len(Suffix(Ascending(ks)[i])))
            \o Suffix(Ascending(ks)[i])]

\* Runs of numbers that take the counter to two digits.
LongRuns == {2..9, 2..10}

ExistingLists(slug) ==
    { (IF own THEN <<slug>> ELSE <<>>) \o Numbered(slug, ks)
          \o CutNumbered(slug, cut) :
        own \in BOOLEAN,
        ks \in (SUBSET (2..MaxSuffix)) \cup LongRuns,
        cut \in SUBSET (2..MaxSuffix) }

EnsureUnique ==
    /\ ~uniqueness.called
    /\ uniqueness' =
         [uniqueness EXCEPT
            !.called = TRUE,
            !.counter = IF Includes(uniqueness.existingSlugs, uniqueness.slug)
                        THEN NextCounter(uniqueness.slug,
                                         uniqueness.existingSlugs, 2)
                        ELSE 0,
            !.uniqueSlug = ensureUnique(uniqueness.slug,
                                        uniqueness.existingSlugs)]
    /\ UNCHANGED <<pipeVars, ringVars, generation, validation, slugging>>

InitUnique ==
    /\ PipeIdle
    /\ RingIdle
    /\ GenIdle
    /\ ValIdle
    /\ SlugIdle
    /\ \E slug \in UniqueBases :
         \E existingSlugs \in ExistingLists(slug) :
           uniqueness = [NoUniqueness EXCEPT !.slug = slug,
                                             !.existingSlugs = existingSlugs]

NextUnique == EnsureUnique

SpecUnique == InitUnique /\ [][NextUnique]_vars

----------------------------------------------------------------------------
(* The route in operation: one caller with the secret, one run after the   *)
(* other, as often as the limiter admits; the collaborators do not fail    *)

OpsProc == 1

OpsRuns == 2 * TotalVerses

\* The caller has been refused and has not waited since.
JustRefused(p) == response[p].status = 429 /\ startNow[p] = now

\* The store and the completion service answer, and the content is valid:
\* nothing but the selection itself can end a run early.
CollaboratorsUp ==
    /\ thrown[OpsProc] = "none"
    /\ response[OpsProc].code
         \notin {"CONTENT_GENERATION_FAILED", "VALIDATION_ERROR",
                 "DATABASE_ERROR"}
    /\ (lastReads[OpsProc] > 0 /\ lastVerse[OpsProc] = Null)
          => startLen[OpsProc] = 0

\* The caller sends the next request once the previous run has ended; after
\* a refusal it waits first, after an exhausted selection it gives up.
CallerArrives ==
    /\ ~JustRefused(OpsProc)
    /\ selErr[OpsProc] # "exhausted"
    /\ Enter(OpsProc, OpsRuns)
    /\ POST(OpsProc, AuthorizedRequest)

\* The refused caller lets an hour pass.
CallerWaits ==
    /\ JustRefused(OpsProc)
    /\ now < WindowHours
    /\ now' = now + 1
    /\ UNCHANGED <<posts, pc, lastVerse, nextVerse, attempts, lastReads,
                   allReads, selErr, thrown, response, runs, startNow,
                   startLen, probe, request, stages, generatedContent,
                   env, rateLimitStore, half, admitted, ringVars,
                   unitVars>>

\* The history after k runs in a row, five to a window: the first k
\* references of the ring, the newest stored two hours ago.
OpsSeed(k) ==
    [i \in 1..k |-> Post(RingOrder[i - 1].source,
                         VerseString(RingOrder[i - 1]),
                         0 - 2 - 2 * ((k - i) \div RATE_LIMIT_MAX_REQUESTS))]

OpsSeeds == { OpsSeed(k) : k \in {0, TotalVerses - 1} }

InitOps ==
    /\ UnitIdle
    /\ posts \in OpsSeeds
    /\ env = Given(SecretToken)
    /\ ProcIdle
    /\ RingIdle

NextOps ==
    \/ CallerArrives
    \/ CallerWaits
    \/ GetLast(OpsProc) /\ CollaboratorsUp'
    \/ CheckRecent(OpsProc) /\ CollaboratorsUp'
    \/ GeneratePost(OpsProc) /\ CollaboratorsUp'
    \/ BuildSlug(OpsProc) /\ CollaboratorsUp'
    \/ SavePost(OpsProc) /\ CollaboratorsUp'

SpecOps == InitOps /\ [][NextOps]_vars

----------------------------------------------------------------------------
(* Properties                                                              *)

\* getNextVerse has returned a reference to invocation p.
Selected(p) ==
    /\ pc[p] \notin {"idle", "getLast", "check"}
    /\ selErr[p] = "none"

OtherSource(s) == IF s = BG THEN SB ELSE BG

\* A row of the history is a record of ref when it carries ref's source and
\* the text "chapter.verse".
RecordOf(row, ref) ==
    /\ row.scriptureSource = ref.source
    /\ row.verseReference = <<ref.chapter, ref.verse>>

\* A row read by the rule first number = chapter, last number = verse.
ParsedRecordOf(row, ref) ==
    /\ row.scriptureSource = ref.source
    /\ row.verseReference[1] = ref.chapter
    /\ row.verseReference[Len(row.verseReference)] = ref.verse

NotOlderThan(row, days) == now - row.createdAt <= days * HoursPerDay

UsedInWindow(ref, days) ==
    \E i \in DOMAIN posts : RecordOf(posts[i], ref) /\ NotOlderThan(posts[i], days)

NoRecordInWindow ==
    \A i \in DOMAIN posts : ~NotOlderThan(posts[i], WindowDays)

CanonicalSuccessor(r) ==
    IF r.verse < StructureOf(r.source)[r.chapter]
    THEN VerseReference(r.source, r.chapter, r.verse + 1)
    ELSE IF r.chapter < Len(StructureOf(r.source))
         THEN VerseReference(r.source, r.chapter + 1, 1)
         ELSE VerseReference(OtherSource(r.source), 1, 1)

\* C2: with a valid last-published reference and no record inside the
\* 365-day window, getNextVerse returns the canonical successor: verse+1 in
\* the chapter, else verse 1 of the next chapter, else 1.1 of the other
\* scripture.
SuccessorWhenNothingRecent ==
    \A p \in Procs :
        (Selected(p) /\ lastVerse[p] \in ValidRefs /\ NoRecordInWindow)
            => nextVerse[p] = CanonicalSuccessor(lastVerse[p])

WrapToBhagavatamSelected ==
    /\ Selected(SelProc)
    /\ NoRecordInWindow
    /\ lastVerse[SelProc] = VerseReference(BG, 18, 78)
    /\ nextVerse[SelProc] = VerseReference(SB, 1, 1)

\* Number of ring steps from a to b, between 1 and TotalVerses.
RingDistance(a, b) ==
    LET d == (RingIndex(b) - RingIndex(a) + TotalVerses) % TotalVerses
    IN  IF d = 0 THEN TotalVerses ELSE d

\* C3: the reference getNextVerse returns is the earliest ring successor of
\* the last-published one with no record inside the 365-day window: every
\* reference strictly between them has such a record, the result has none.
EarliestEligibleSuccessor ==
    LET recent == { <<posts[i].scriptureSource, posts[i].verseReference>> :
                      i \in {j \in DOMAIN posts :
                                NotOlderThan(posts[j], WindowDays)} }
        Recorded(ref) == <<ref.source, <<ref.chapter, ref.verse>>>> \in recent
    IN  \A p \in Procs :
            (Selected(p) /\ lastVerse[p] \in ValidRefs)
                => /\ nextVerse[p] \in ValidRefs
                   /\ ~UsedInWindow(nextVerse[p], WindowDays)
                   /\ \A n \in 1..(RingDistance(lastVerse[p], nextVerse[p]) - 1) :
                          Recorded(RefAfter(lastVerse[p], n))

ThreeRecentSkipped ==
    /\ Selected(SelProc)
    /\ lastVerse[SelProc] = VerseReference(BG, 2, 13)
    /\ nextVerse[SelProc] = VerseReference(BG, 2, 17)
    /\ \A v \in 14..16 : UsedInWindow(VerseReference(BG, 2, v), WindowDays)

SameVerse(a, b) ==
    /\ a.scriptureSource = b.scriptureSource
    /\ a.verseReference[1] = b.verseReference[1]
    /\ a.verseReference[Len(a.verseReference)]
         = b.verseReference[Len(b.verseReference)]

\* C4: after non-overlapping pipeline runs the history never holds two
\* records of the same source, chapter and verse created 365 days or less
\* apart.
NoRepeatWithin365 ==
    \A i \in DOMAIN posts : \A j \in DOMAIN posts :
        (i < j /\ SameVerse(posts[i], posts[j]))
            => posts[j].createdAt - posts[i].createdAt > WindowHours

\* C5: when getLastPublishedVerse reports no reference, getNextVerse returns
\* Bhagavad Gita 1.1 at once: no history load, no recency check.
BootstrapWithoutHistoryLoad ==
    \A p \in Procs :
        (lastReads[p] = 1 /\ lastVerse[p] = Null /\ selErr[p] = "none"
         /\ pc[p] # "getLast")
            => /\ Selected(p)
               /\ nextVerse[p] = BG11
               /\ allReads[p] = 0
               /\ attempts[p] = 0

BootstrapOnEmptyHistory ==
    /\ posts = <<>>
    /\ Selected(SelProc)
    /\ lastReads[SelProc] = 1
    /\ lastVerse[SelProc] = Null
    /\ nextVerse[SelProc] = BG11

MiddleComponentIgnored ==
    (/\ probe.called
     /\ \E i \in DOMAIN posts : /\ ParsedRecordOf(posts[i], probe.verse)
                                /\ NotOlderThan(posts[i], probe.days))
        => probe.result

\* C8: getNextVerse raises the exhaustion error only when every valid
\* reference of both scriptures has a record inside the 365-day window.
ExhaustionOnlyWhenNoneEligible ==
    \A p \in Procs :
        selErr[p] = "exhausted"
            => \A r \in ValidRefs : UsedInWindow(r, WindowDays)

\* Both invocations ran their whole selection on the same history and clock.
SameView(p, q) ==
    /\ startLen[p] = Len(posts)
    /\ startLen[q] = Len(posts)
    /\ startNow[p] = now
    /\ startNow[q] = now

\* C9: the route does not serialize invocations: a request is admitted
\* whatever other invocations are doing, two invocations that read the same
\* last-published reference on the same history hold the same candidate, and
\* either may save it.
RouteDoesNotSerialize ==
    /\ \A p \in Procs :
           (pc[p] \in {"idle", "done"} /\ runs < MaxRuns) => ENABLED Request(p)
    /\ \A p \in Procs : pc[p] = "save" => ENABLED SavePost(p)
    /\ \A p \in Procs : \A q \in Procs :
           (/\ p # q
            /\ Selected(p) /\ Selected(q)
            /\ InFlight(p) /\ InFlight(q)
            /\ SameView(p, q)
            /\ lastVerse[p] = lastVerse[q])
               => nextVerse[p] = nextVerse[q]

\* Two overlapping invocations read the same last-published reference and
\* both saved the same candidate: two records of it inside the window.
OverlapPublishedTwice ==
    /\ pc[1] = "done" /\ response[1].status = 200
    /\ pc[2] = "done" /\ response[2].status = 200
    /\ startLen[1] = startLen[2]
    /\ lastVerse[1] # Null
    /\ lastVerse[1] = lastVerse[2]
    /\ nextVerse[1] = nextVerse[2]
    /\ \E i \in DOMAIN posts : \E j \in DOMAIN posts :
           /\ i < j
           /\ i > startLen[1]
           /\ RecordOf(posts[i], nextVerse[1])
           /\ RecordOf(posts[j], nextVerse[1])
           /\ posts[j].createdAt - posts[i].createdAt <= WindowHours

\* C10 as stated: one invocation reads the history collaborator at most
\* twice, one getLastPublishedVerse and one getAllPosts, however many
\* candidates are skipped.
AtMostTwoReads ==
    \A p \in Procs : lastReads[p] <= 1 /\ allReads[p] <= 1

\* C10 amended: one getLastPublishedVerse read, and one getAllPosts read per
\* candidate examined: none without a last-published reference, k+1 after k
\* skipped candidates, never more than maxAttempts.
OneLoadPerCandidate ==
    \A p \in Procs :
        /\ lastReads[p] <= 1
        /\ allReads[p] <= maxAttempts
        /\ pc[p] = "check" => allReads[p] = attempts[p]
        /\ (Selected(p) /\ lastVerse[p] = Null) => allReads[p] = 0
        /\ (Selected(p) /\ lastVerse[p] # Null) => allReads[p] = attempts[p] + 1
        /\ selErr[p] = "exhausted" => allReads[p] = attempts[p]

FourLoadsForThreeSkips ==
    /\ Selected(SelProc)
    /\ attempts[SelProc] = 3
    /\ allReads[SelProc] = 4
    /\ lastReads[SelProc] = 1

StoreFailurePropagates ==
    \A p \in Procs :
        thrown[p] # "none"
            => /\ selErr[p] = thrown[p]
               /\ ~Selected(p)
               /\ pc[p] = "done"
               /\ response[p].code = "VERSE_SELECTION_FAILED"
               /\ lastReads[p] = 1
               /\ thrown[p] \in LastVerseErrors
                      => allReads[p] = 0 /\ nextVerse[p] = Null
               /\ thrown[p] \in AllPostsErrors
                      => allReads[p] = attempts[p] + 1

HistoryLoadFailedMidway ==
    /\ thrown[SelProc] = "Failed to get all posts"
    /\ selErr[SelProc] = thrown[SelProc]
    /\ attempts[SelProc] = 2
    /\ allReads[SelProc] = 3
    /\ pc[SelProc] = "done"
\* C13: getLastPublishedVerse returns null only when the store holds no
\* post: a read that answered null was a read of an empty history, never a
\* failed one.
NullOnlyWhenNoPosts ==
    \A p \in Procs :
        (lastReads[p] = 1 /\ pc[p] # "getLast" /\ thrown[p] = "none"
         /\ lastVerse[p] = Null)
            => posts = <<>>
ChapterDefined(ref) == ref.chapter \in DOMAIN StructureOf(ref.source)

\* C14 as stated: the sequencer applied to a reference whose chapter is not
\* defined for its source raises an out-of-range error and returns no
\* reference.
OutOfRangeLookupFails ==
    (ringSteps >= 1 /\ ~ChapterDefined(ringStart))
        => ringCur = OutOfRangeError

\* C14 amended: a lookup for an undefined chapter yields no count and no
\* error; the sequencer then returns verse 1 of the following chapter when
\* the chapter number is below the last chapter of the source, else 1.1 of
\* the other scripture.
OutOfRangeChapterSequenced ==
    (ringSteps = 1 /\ ~ChapterDefined(ringStart))
        => /\ ringCur # OutOfRangeError
           /\ ringCur = IF ringStart.chapter < Len(StructureOf(ringStart.source))
                        THEN VerseReference(ringStart.source,
                                            ringStart.chapter + 1, 1)
                        ELSE VerseReference(OtherSource(ringStart.source), 1, 1)

GitaChapter19Sequenced ==
    /\ ringStart = VerseReference(BG, 19, 5)
    /\ ringSteps = 1
    /\ ringCur = VerseReference(SB, 1, 1)
\* The request carries the secret: as the Authorization header, bare or
\* after the Bearer scheme, or as the token query parameter.
CarriesSecret(req) ==
    /\ Truthy(env)
    /\ \/ /\ req.authorization.present
          /\ req.authorization.value
                \in {env.value, <<Bearer>> \o env.value}
       \/ req.token.present /\ req.token.value = env.value

NoPipelineStep(p) ==
    /\ pc[p] = "done"
    /\ lastReads[p] = 0
    /\ allReads[p] = 0
    /\ nextVerse[p] = Null
    /\ generatedContent[p] = NoContent
    /\ Len(posts) = startLen[p]

\* C15: a request that carries no token equal to API_SECRET_TOKEN, or that
\* arrives while API_SECRET_TOKEN is unset, is answered 401 AUTH_FAILED and
\* no later step runs for it: no rate-limit count, no verse selection, no
\* content generation, no save.
UnauthorizedGets401 ==
    \A p \in Procs :
        (pc[p] # "idle" /\ ~CarriesSecret(request[p]))
            => /\ response[p] = [status |-> 401, code |-> "AUTH_FAILED"]
               /\ stages[p] = <<"auth">>
               /\ NoPipelineStep(p)

InvalidHeaderRejected ==
    /\ Truthy(env)
    /\ request[GateProc].authorization = Given(<<Bearer>> \o InvalidToken)
    /\ request[GateProc].token = Absent
    /\ response[GateProc].status = 401
    /\ stages[GateProc] = <<"auth">>
    /\ \A c \in Clients : rateLimitStore[c] = NoEntry
\* C16 as stated: for each client identifier at most 5 requests are admitted
\* within any one-hour span: the fifth admission after any given one comes
\* a full hour later or more.
AtMostFivePerHour ==
    \A c \in Clients :
        \A i \in DOMAIN admitted[c] : \A j \in DOMAIN admitted[c] :
            j - i >= RATE_LIMIT_MAX_REQUESTS
                => admitted[c][j] - admitted[c][i] >= RATE_LIMIT_WINDOW_MS

\* Admissions of client c in the window its entry stands for.
InCurrentWindow(c) ==
    { i \in DOMAIN admitted[c] :
        admitted[c][i] >= rateLimitStore[c].resetTime - RATE_LIMIT_WINDOW_MS }

\* C16 amended: the limit is kept per fixed window.  A client's window opens
\* with its first authenticated request after the previous window's reset
\* time has passed, and ends one hour later; at most 5 requests are admitted
\* in a window, the entry counts exactly them, and a request refused with
\* 429 RATE_LIMIT_EXCEEDED met a full window and ran no pipeline step.
FixedWindowLimit ==
    /\ \A c \in Clients :
           /\ rateLimitStore[c].count <= RATE_LIMIT_MAX_REQUESTS
           /\ rateLimitStore[c] = NoEntry => admitted[c] = <<>>
           /\ rateLimitStore[c] # NoEntry
                  => /\ Cardinality(InCurrentWindow(c)) = rateLimitStore[c].count
                     /\ \A i \in DOMAIN admitted[c] :
                            admitted[c][i] <= rateLimitStore[c].resetTime
    /\ \A p \in Procs :
           response[p].status = 429
               => /\ response[p].code = "RATE_LIMIT_EXCEEDED"
                  /\ CarriesSecret(request[p])
                  /\ rateLimitStore[ClientId(request[p])].count
                         = RATE_LIMIT_MAX_REQUESTS
                  /\ stages[p] = <<"auth", "rateLimit">>
                  /\ NoPipelineStep(p)

SixthInWindowRefused ==
    /\ response[GateProc].status = 429
    /\ ClientId(request[GateProc]) = DefaultClient
    /\ Len(admitted[DefaultClient]) = RATE_LIMIT_MAX_REQUESTS
    /\ rateLimitStore[DefaultClient].count = RATE_LIMIT_MAX_REQUESTS
    /\ DateNow <= rateLimitStore[DefaultClient].resetTime
AllStages ==
    <<"auth", "rateLimit", "select", "generate", "validate", "slug", "save">>

\* The error code the route answers with when the named stage fails.
CodeOfStage(stage) ==
    CASE stage = "select" -> "VERSE_SELECTION_FAILED"
      [] stage = "generate" -> "CONTENT_GENERATION_FAILED"
      [] stage = "validate" -> "VALIDATION_ERROR"
      [] stage = "slug" -> "DATABASE_ERROR"
      [] stage = "save" -> "DATABASE_ERROR"
      [] OTHER -> "none"

StagesInOrder ==
    \A p \in Procs :
        /\ stages[p] = SubSeq(AllStages, 1, Len(stages[p]))
        /\ response[p].status = 500
               => /\ pc[p] = "done"
                  /\ Len(stages[p]) > 2
                  /\ response[p].code = CodeOfStage(stages[p][Len(stages[p])])
        /\ (pc[p] = "save" \/ Len(stages[p]) = Len(AllStages))
               => validate(generatedContent[p]).valid
        /\ response[p].status = 200
               => pc[p] = "done" /\ stages[p] = AllStages

\* The history store changes exactly in the step in which some invocation's
\* savePost succeeds and the invocation answers 200; a step that answers
\* 500 leaves it as it was.
WritesOnlyOnSuccess ==
    /\ (posts' # posts)
           <=> \E p \in Procs : /\ pc[p] = "save"
                                /\ pc'[p] = "done"
                                /\ response'[p].status = 200
    /\ \A p \in Procs :
           (pc[p] = "save" /\ pc'[p] = "done" /\ response'[p].status = 200)
               => posts' = Append(posts, Post(nextVerse[p].source,
                                              VerseString(nextVerse[p]), now))

AtMostTwoCompletionCalls ==
    /\ generation.calls <= 2
    /\ generation.calls >= 1
           => generation.waitedMs = 2000 * (generation.calls - 1)
    /\ generation.pc \in {"completion", "returned"}
           => generation.calls = Len(generation.errors) + 1
    /\ (generation.pc = "returned" /\ generation.errors = <<>>)
           => generation.calls = 1 /\ generation.waitedMs = 0
    /\ generation.calls = 2
           => Len(generation.errors) >= 1 /\ generation.waitedMs = 2000
    /\ generation.pc = "sleep"
           => generation.calls = 1 /\ Len(generation.errors) = 1
    /\ generation.pc = "rejected"
           => /\ generation.calls = 2
              /\ Len(generation.errors) = 2
              /\ generation.error =
                     <<"Content generation failed after 2 attempts: ",
                       generation.errors[2]>>
    /\ generation.pc \in {"returned", "rejected"} => ~ENABLED NextGen

RejectedWithLastMessage ==
    /\ generation.pc = "rejected"
    /\ generation.calls = 2
    /\ generation.errors = <<"API timeout", "Rate limit exceeded">>
    /\ generation.error = <<"Content generation failed after 2 attempts: ",
                            "Rate limit exceeded">>
NonBlank(text) == \E i \in DOMAIN text : text[i] # Space

HasError(text) ==
    \E i \in DOMAIN validation.result.errors :
        validation.result.errors[i].text = text

\* The rules of the claim, read off the content.
RulesMet(c) ==
    /\ NonBlank(c.title) /\ NonBlank(c.verseExcerpt)
    /\ NonBlank(c.explanation) /\ NonBlank(c.reflection)
    /\ NonBlank(c.practicalApplication) /\ NonBlank(c.closingLine)
    /\ NonBlank(c.seoDescription)
    /\ Len(c.title) <= 100
    /\ WordCount(c.verseExcerpt) >= 1 /\ WordCount(c.verseExcerpt) <= 40
    /\ Len(c.seoDescription) <= 160
    /\ c.wordCount >= 700 /\ c.wordCount <= 900

ValidIffRules ==
    LET c == validation.content
    IN  /\ validation.result.valid <=> validation.result.errors = <<>>
        /\ validation.result.valid <=> RulesMet(c)

\* A message is in the list exactly when its rule is violated; the excerpt's
\* word rule is looked at only when excerptChecked holds.
MessagesMatchRules(excerptChecked) ==
    LET c == validation.content
    IN  /\ HasError("Title is required") <=> ~NonBlank(c.title)
        /\ HasError("Verse excerpt is required") <=> ~NonBlank(c.verseExcerpt)
        /\ HasError("Explanation is required") <=> ~NonBlank(c.explanation)
        /\ HasError("Reflection is required") <=> ~NonBlank(c.reflection)
        /\ HasError("Practical application is required")
               <=> ~NonBlank(c.practicalApplication)
        /\ HasError("Closing line is required") <=> ~NonBlank(c.closingLine)
        /\ HasError("SEO description is required")
               <=> ~NonBlank(c.seoDescription)
        /\ HasError("Title must be between 1 and 100 characters")
               <=> Len(c.title) > 100
        /\ HasError("Verse excerpt must be between 1 and 40 words")
               <=> /\ excerptChecked
                   /\ WordCount(c.verseExcerpt) < 1
                         \/ WordCount(c.verseExcerpt) > 40
        /\ HasError("SEO description must be between 1 and 160 characters")
               <=> Len(c.seoDescription) > 160
        /\ HasError("Total word count must be between 700 and 900 words")
               <=> (c.wordCount < 700 \/ c.wordCount > 900)

\* C19 as stated: valid iff the error list is empty iff all the rules are
\* met, and every violated rule has its own message in the list.
ValidIffRulesEachWithMessage ==
    validation.called => ValidIffRules /\ MessagesMatchRules(TRUE)

\* C19 amended: valid iff the error list is empty iff all the rules are met;
\* every violated rule has its own message in the list, except that an
\* empty verse excerpt brings 'Verse excerpt is required' alone, without the
\* message of the 1-to-40-words rule; the word-count message carries the
\* count.
ValidIffRulesMessagesButEmptyExcerpt ==
    validation.called
        => /\ ValidIffRules
           /\ MessagesMatchRules(validation.content.verseExcerpt # <<>>)
           /\ \A i \in DOMAIN validation.result.errors :
                  validation.result.errors[i].current
                      = IF validation.result.errors[i].text
                             = "Total word count must be between 700 and 900 words"
                        THEN validation.content.wordCount
                        ELSE 0

EmptyExcerptOnlyRequired ==
    /\ validation.called
    /\ validation.content.verseExcerpt = <<>>
    /\ validation.content.wordCount = 700
    /\ Len(validation.result.errors) = 1
    /\ HasError("Verse excerpt is required")
    /\ ~validation.result.valid
\* C20: the slug of a title never starts or ends with a hyphen.
SlugNeverEdgedByHyphen ==
    slugging.called /\ slugging.slug # <<>>
        => /\ Head(slugging.slug) # Hyphen
           /\ slugging.slug[Len(slugging.slug)] # Hyphen
\* C21: generateSlug is idempotent: applied to a slug it has produced, it
\* returns that slug unchanged.
SlugIdempotent ==
    [][slugging.called => slugging'.slug = slugging.slug]_vars
\* C24: a slug is URL-friendly and bounded: only the characters a-z, 0-9 and
\* the hyphen, no two hyphens in a row, at most 100 characters.
SlugUrlFriendly ==
    slugging.called
        => /\ \A i \in DOMAIN slugging.slug : slugging.slug[i] \in SlugChars
           /\ \A i \in 1..(Len(slugging.slug) - 1) :
                  ~(slugging.slug[i] = Hyphen /\ slugging.slug[i + 1] = Hyphen)
           /\ Len(slugging.slug) <= 100

HyphenAndSpaceJoined ==
    /\ slugging.called
    /\ slugging.title = <<"a", Hyphen, Space, "A">>
    /\ slugging.slug = <<"a", Hyphen, "a">>
\* C22: the value ensureUnique returns is never a member of existingSlugs,
\* also when the numbered slug was cut to fit 100 characters.
UniqueNotExisting ==
    uniqueness.called
        => ~Includes(uniqueness.existingSlugs, uniqueness.uniqueSlug)
\* k is the smallest number from 2 on whose name slug-k is not in the list.
SmallestFree(k) ==
    /\ k >= 2
    /\ ~Includes(uniqueness.existingSlugs, uniqueness.slug \o Suffix(k))
    /\ \A j \in 2..(k - 1) :
           Includes(uniqueness.existingSlugs, uniqueness.slug \o Suffix(j))

\* C23 as stated: a slug that is not in the list is returned unchanged;
\* otherwise the result is slug-k for the smallest k >= 2 whose slug-k is not
\* in the list.
SmallestFreeSuffix ==
    uniqueness.called
        => IF ~Includes(uniqueness.existingSlugs, uniqueness.slug)
           THEN uniqueness.uniqueSlug = uniqueness.slug
           ELSE \E k \in 2..(Len(uniqueness.existingSlugs) + 1) :
                    /\ SmallestFree(k)
                    /\ uniqueness.uniqueSlug = uniqueness.slug \o Suffix(k)

\* C23 amended: as above, except that when slug-k has more than 100
\* characters the result is the first 100 - length(-k) characters of the slug
\* followed by -k.
SmallestFreeSuffixCutToFit ==
    uniqueness.called
        => IF ~Includes(uniqueness.existingSlugs, uniqueness.slug)
           THEN uniqueness.uniqueSlug = uniqueness.slug
           ELSE \E k \in 2..(Len(uniqueness.existingSlugs) + 1) :
                    /\ SmallestFree(k)
                    /\ uniqueness.uniqueSlug =
                         IF Len(uniqueness.slug) + Len(Suffix(k)) > 100
                         THEN SubSeq(uniqueness.slug, 1, 100 - Len(Suffix(k)))
                                  \o Suffix(k)
                         ELSE uniqueness.slug \o Suffix(k)

GapReusedAndBaseCut ==
    /\ uniqueness.called
    /\ uniqueness.slug = Repeat("a", 99)
    /\ uniqueness.existingSlugs
         = <<Repeat("a", 99), Repeat("a", 99) \o <<Hyphen, "3">> >>
    /\ uniqueness.uniqueSlug = Repeat("a", 98) \o <<Hyphen, "2">>
EndsWith(text, suffix) ==
    /\ Len(text) >= Len(suffix)
    /\ SubSeq(text, Len(text) - Len(suffix) + 1, Len(text)) = suffix

\* C25: for a slug of at most 100 characters that is already in the list,
\* the result has at most 100 characters and ends with the suffix -k of the
\* counter the loop stopped at.
SuffixKeptWithinLimit ==
    (/\ uniqueness.called
     /\ Len(uniqueness.slug) <= 100
     /\ Includes(uniqueness.existingSlugs, uniqueness.slug))
        => /\ Len(uniqueness.uniqueSlug) <= 100
           /\ uniqueness.counter >= 2
           /\ EndsWith(uniqueness.uniqueSlug, Suffix(uniqueness.counter))

TwoDigitSuffixFits ==
    /\ uniqueness.called
    /\ uniqueness.slug = Repeat("a", 100)
    /\ uniqueness.counter = 10
    /\ uniqueness.uniqueSlug = Repeat("a", 97) \o <<Hyphen, "1", "0">>
\* The first n ring successors of ref all have a record inside the window.
SuccessorsRecent(ref, n) ==
    LET recent == { <<posts[i].scriptureSource, posts[i].verseReference>> :
                      i \in {j \in DOMAIN posts :
                                NotOlderThan(posts[j], WindowDays)} }
    IN  \A k \in 1..n :
            <<RefAfter(ref, k).source,
              <<RefAfter(ref, k).chapter, RefAfter(ref, k).verse>>>> \in recent

\* C26: the loop raises exhaustion only when its counter exceeds 1000: after
\* exactly 1000 skipped successors, the next one being free, getNextVerse
\* returns that next reference.
ExhaustionOnlyPastThousand ==
    \A p \in Procs :
        /\ selErr[p] = "exhausted" => attempts[p] > maxAttempts
        /\ (/\ Settled(p)
            /\ lastVerse[p] \in ValidRefs
            /\ SuccessorsRecent(lastVerse[p], maxAttempts)
            /\ ~UsedInWindow(RefAfter(lastVerse[p], maxAttempts + 1),
                             WindowDays))
               => /\ selErr[p] = "none"
                  /\ nextVerse[p] = RefAfter(lastVerse[p], maxAttempts + 1)
\* C27: in operation (authenticated requests within the rate limit, one run
\* after the other, from an empty history) getNextVerse never fails with the
\* exhaustion error.
ExhaustionUnreachable ==
    \A p \in Procs : selErr[p] # "exhausted"
\* Invocation p has read the last-published reference and nothing was thrown.
HasReadLast(p) ==
    /\ lastReads[p] = 1
    /\ pc[p] \notin {"idle", "getLast"}
    /\ thrown[p] = "none"

\* C28: after a run has saved its post, the next run reads back exactly the
\* reference that was published, and its first candidate is that
\* reference's ring successor.
PublishedReadBack ==
    \A p \in Procs : \A q \in Procs \ {p} :
        (/\ response[q].status = 200
         /\ HasReadLast(p)
         /\ startLen[p] = Len(posts))
            => /\ lastVerse[p] = nextVerse[q]
               /\ attempts[p] = 0 /\ selErr[p] = "none" /\ pc[p] = "check"
                     => nextVerse[p] = CanonicalSuccessor(nextVerse[q])
\* Source one of the two scriptures, chapter within the source's range,
\* verse between 1 and the chapter's count.
IsValidReference(ref) ==
    /\ ref.source \in {BG, SB}
    /\ ref.chapter >= 1 /\ ref.chapter <= Len(StructureOf(ref.source))
    /\ ref.verse >= 1 /\ ref.verse <= StructureOf(ref.source)[ref.chapter]

\* A stored row read as getLastPublishedVerse reads it.
RowReference(row) ==
    VerseReference(row.scriptureSource, row.verseReference[1],
                   row.verseReference[Len(row.verseReference)])

\* C29: validity is preserved: from a valid (or no) last-published
\* reference getNextVerse returns only valid references, whatever the
\* history; hence every stored row names a valid reference.
ValidityPreserved ==
    /\ \A p \in Procs :
          (/\ HasReadLast(p) /\ Selected(p)
           /\ lastVerse[p] = Null \/ IsValidReference(lastVerse[p]))
              => IsValidReference(nextVerse[p])
    /\ \A i \in DOMAIN posts : IsValidReference(RowReference(posts[i]))

WrapBackToGitaSelected ==
    /\ Selected(SelProc)
    /\ lastVerse[SelProc] = RingOrder[TotalVerses - 1]
    /\ lastVerse[SelProc].source = SB
    /\ attempts[SelProc] = 0
    /\ nextVerse[SelProc] = BG11
====

